---- MODULE Spec2Model ----
(***************************************************************************)
(* State-machine model of src/main.py: the APIKeyManager key pool, the     *)
(* transcribe_audio retry loop, the type_text_wayland fallback chain and   *)
(* the main / recording-thread / signal-handler control flow.              *)
(***************************************************************************)
EXTENDS Integers, Sequences, FiniteSets, TLC

(* ---- bounds of the model ---- *)
MaxKeys == 2
MaxSignals == 1
MaxFrames == 1
MaxRuns == 2
MaxCtx == 1

(* ---- values ---- *)
\* get_key returns None for an empty pool (main.py:62); keys are 1..N
None == 0

NoError == <<>>

Range(s) == {s[i] : i \in DOMAIN s}

SetMin(S) == CHOOSE x \in S : \A y \in S : x <= y

SetMax(S) == CHOOSE x \in S : \A y \in S : x >= y

(***************************************************************************)
(* Texts.  A text is a sequence of one-character strings.                  *)
(***************************************************************************)
Surrogate == "U+D800"

\* "  stop.\n"
TextStop == <<" ", " ", "s", "t", "o", "p", ".", "\n">>

TextEmpty == <<>>

TextBlank == <<" ">>

\* 500 letters followed by a lone surrogate (as json.loads yields for an
\* unpaired \ud800 escape); the surrogate is at 0-based index 500
TextSurrogate == [i \in 1..501 |-> IF i = 501 THEN Surrogate ELSE "a"]

ResponseTexts == {TextStop, TextEmpty, TextBlank, TextSurrogate}

\* "hello world"
TextHello == <<"h", "e", "l", "l", "o", " ", "w", "o", "r", "l", "d">>

IsSpace(c) == c \in {" ", "\n", "\t"}

\* str.strip(): main.py:379
Strip(s) ==
    LET idx == {i \in DOMAIN s : ~IsSpace(s[i])}
    IN  IF idx = {} THEN <<>> ELSE SubSeq(s, SetMin(idx), SetMax(idx))

\* message[:100] in feedback: main.py:102
Truncate100(s) == IF Len(s) <= 100 THEN s ELSE SubSeq(s, 1, 100)

SurrogateIdx(s) == {i \in DOMAIN s : s[i] = Surrogate}

(***************************************************************************)
(* Error messages.  str(e) is a sequence of tokens; a pattern of           *)
(* main.py:397 is a sequence of lower-case tokens and "pattern in          *)
(* error_str" is modelled as: the pattern occurs as consecutive tokens of  *)
(* the lower-cased message.  No token of the messages below contains a     *)
(* pattern as a proper substring, so on these messages token matching and  *)
(* substring matching agree.                                               *)
(***************************************************************************)
RetryablePatterns ==
    { <<"500">>, <<"502">>, <<"503">>, <<"504">>, <<"529">>, <<"599">>,
      <<"rate", "limit">>, <<"quota">>, <<"overloaded">>, <<"timeout">> }

\* str.lower() on the tokens that occur in the messages of the model
LowerTok(t) ==
    CASE t = "UNAVAILABLE" -> "unavailable"
      [] t = "RESOURCE_EXHAUSTED" -> "resource_exhausted"
      [] t = "Quota" -> "quota"
      [] t = "UNAUTHENTICATED" -> "unauthenticated"
      [] t = "API" -> "api"
      [] t = "Command" -> "command"
      [] t = "Errno" -> "errno"
      [] t = "Permission" -> "permission"
      [] OTHER -> t

Lower(msg) == [i \in DOMAIN msg |-> LowerTok(msg[i])]

Contains(msg, pat) ==
    \E i \in 1..(Len(msg) - Len(pat) + 1) :
        SubSeq(msg, i, i + Len(pat) - 1) = pat

\* main.py:394-397
is_retryable(msg) ==
    LET error_str == Lower(msg)
    IN  \E pat \in RetryablePatterns : Contains(error_str, pat)

\* errors the transcription client raises (external collaborator)
Err503 == <<"503", "UNAVAILABLE">>

ErrQuota == <<"429", "RESOURCE_EXHAUSTED", "Quota", "exceeded">>

ErrAuth == <<"401", "UNAUTHENTICATED", "API", "key", "not", "valid">>

ApiErrors == {Err503, ErrQuota, ErrAuth}

\* subprocess.CalledProcessError of wl-copy run with check=True
ErrCalledProcess ==
    <<"Command", "wl-copy", "returned", "non-zero", "exit", "status", "1">>

\* PermissionError of subprocess.run for a tool that is not executable
ErrPermission(tool) == <<"Errno", "13", "Permission", "denied", tool>>

\* UnicodeEncodeError of subprocess.run for an argument holding a lone
\* surrogate at 0-based index p
ErrUnicode(p) ==
    <<"utf-8", "codec", "can't", "encode", "character", Surrogate, "in",
      "position", ToString(p), "surrogates", "not", "allowed">>

(***************************************************************************)
(* APIKeyManager                                                           *)
(***************************************************************************)
\* _load_api_keys: the pools the environment can configure (distinct keys,
\* insertion order kept)
LoadedPools == {[i \in 1..n |-> i] : n \in 0..MaxKeys}

\* main.py:65 / 89
available_keys(keys, failed) == SelectSeq(keys, LAMBDA k : k \notin failed)

\* get_key without the reset of an exhausted pool (main.py:70 dropped)
get_key_NoReset(keys, failed) ==
    IF keys = <<>>
    THEN {[ret |-> None, failed |-> failed]}
    ELSE LET avail == available_keys(keys, failed)
         IN  IF avail = <<>>
             THEN {[ret |-> keys[i], failed |-> failed] : i \in DOMAIN keys}
             ELSE {[ret |-> avail[i], failed |-> failed] : i \in DOMAIN avail}

\* get_key, main.py:59-75: the set of (return value, new failed set) pairs
\* random.choice can produce
get_key(keys, failed) ==
    IF keys = <<>>
    THEN {[ret |-> None, failed |-> failed]}
    ELSE LET avail == available_keys(keys, failed)
         IN  IF avail = <<>>
             THEN {[ret |-> keys[i], failed |-> {}] : i \in DOMAIN keys}
             ELSE {[ret |-> avail[i], failed |-> failed] : i \in DOMAIN avail}

\* mark_failed that forgets the key (main.py:80 dropped)
mark_failed_Noop(keys, failed, k) == failed

\* mark_failed without the membership test (main.py:79 dropped)
mark_failed_NoGuard(keys, failed, k) == failed \cup {k}

\* main.py:77-81
mark_failed(keys, failed, k) ==
    IF k \in Range(keys) THEN failed \cup {k} ELSE failed

\* main.py:83-85
mark_success(failed, k) == failed \ {k}

\* main.py:87-89
get_remaining_count(keys, failed) == Len(available_keys(keys, failed))

(***************************************************************************)
(* State                                                                   *)
(***************************************************************************)
VARIABLES
    api_keys,       \* APIKeyManager.api_keys
    failed_keys,    \* APIKeyManager.failed_keys
    current_key,    \* APIKeyManager.current_key
    recording,      \* global recording flag
    audio_exists,   \* AUDIO_FILE exists on disk
    handlers,       \* signal handlers installed
    signals,        \* stop signals delivered so far
    pc,             \* position of the main thread
    rec_pc,         \* position of the recording thread
    frames,         \* frames read by the recording thread (saturating)
    max_retries,    \* transcribe_audio local
    attempt,        \* transcribe_audio loop index
    key,            \* transcribe_audio local current_key
    failed_at_select, \* history: failed_keys when get_key was last called
    failed_at_start,  \* history: failed_keys when transcribe_audio started
    last_error,     \* transcribe_audio local (str of the exception)
    clean_text,     \* transcribe_audio local
    inj_result,     \* how type_text_wayland ended: none/true/false/raised
    notifications,  \* how often feedback() was called, per event
    requests,       \* history: requests issued to the transcription API
    inject_calls,   \* history: texts type_text_wayland was called with
    strat_log,      \* history: strategies started by the last inject call
    outcome,        \* history: how the transcribe run ended
    last_call,      \* history: last APIKeyManager call (pool specification)
    cleanup_failed, \* history: os.remove raised in the cleanup ending main
    runs,           \* transcribe_audio calls completed (repeated-run harness)
    ui_text,        \* type_text_uinput: text
    ui_pos,         \* type_text_uinput: index of the next character
    ui_events,      \* type_text_uinput: events written to the device
    typed_count,    \* type_text_uinput local
    skipped_count,  \* type_text_uinput local
    ui_ret          \* type_text_uinput: return value (none/true)

vars == <<api_keys, failed_keys, current_key, recording, audio_exists,
          handlers, signals, pc, rec_pc, frames, max_retries, attempt, key,
          failed_at_select, failed_at_start, last_error, clean_text,
          inj_result, notifications, requests,
          inject_calls, strat_log, outcome, last_call, cleanup_failed, runs,
          ui_text, ui_pos, ui_events, typed_count, skipped_count, ui_ret>>

ui == <<ui_text, ui_pos, ui_events, typed_count, skipped_count, ui_ret>>

other == <<cleanup_failed, runs, ui>>

mgr == <<api_keys, failed_keys, current_key>>

locals == <<max_retries, attempt, key, last_error, clean_text>>

hist == <<failed_at_select, failed_at_start>>

inj == <<inj_result, inject_calls, strat_log>>

rec == <<recording, rec_pc, frames>>

NoCall == [op |-> "none", arg |-> None, ret |-> None, before |-> {}]

Events == {"start", "stop", "done", "error"}

\* feedback(event, ...), main.py:92-126: one more notification of the event
feedback(n, event) == [n EXCEPT ![event] = @ + 1]

\* APIKeyManager.__init__ (main.py:26-30, 130) and the module globals
\* (main.py:139-140); the audio file of an earlier run may be on disk
Constructed ==
    /\ api_keys \in LoadedPools
    /\ failed_keys = {}
    /\ current_key = None
    /\ recording = FALSE
    /\ audio_exists \in BOOLEAN
    /\ handlers = FALSE
    /\ signals = 0
    /\ rec_pc = "idle"
    /\ frames = 0
    /\ max_retries = 0
    /\ attempt = 0
    /\ key = None
    /\ failed_at_select = {}
    /\ failed_at_start = {}
    /\ last_error = NoError
    /\ clean_text = <<>>
    /\ inj_result = "none"
    /\ notifications = [e \in Events |-> 0]
    /\ requests = <<>>
    /\ inject_calls = <<>>
    /\ strat_log = <<>>
    /\ outcome = "none"
    /\ last_call = NoCall
    /\ cleanup_failed = FALSE
    /\ runs = 0
    /\ ui_pos = 1
    /\ ui_events = <<>>
    /\ typed_count = 0
    /\ skipped_count = 0
    /\ ui_ret = "none"

Init ==
    /\ Constructed
    /\ ui_text = <<>>
    /\ pc = "m_install"

(***************************************************************************)
(* main, the recording thread and the signal handler                       *)
(***************************************************************************)
\* cleanup_audio_file that removes nothing (main.py:152 dropped)
cleanup_audio_file_Keep(exists) == {[exists |-> exists, failed |-> FALSE]}

\* cleanup_audio_file, main.py:148-154: the file is removed; an error of
\* os.remove is logged and swallowed, leaving the file in place
cleanup_audio_file(exists) ==
    IF exists
    THEN {[exists |-> FALSE, failed |-> FALSE],
          [exists |-> TRUE, failed |-> TRUE]}
    ELSE {[exists |-> FALSE, failed |-> FALSE]}

\* signal_handler, main.py:142-146
SignalHandler ==
    /\ handlers
    /\ signals < MaxSignals
    /\ pc \notin {"done", "exit1"}
    /\ signals' = signals + 1
    /\ recording' = FALSE
    /\ notifications' = feedback(notifications, "stop")
    /\ UNCHANGED <<mgr, audio_exists, handlers, pc, rec_pc, frames, locals,
                   hist, inj, requests, outcome, last_call, other>>

\* main.py:425-426
MainInstallHandlers ==
    /\ pc = "m_install"
    /\ handlers' = TRUE
    /\ pc' = "m_check"
    /\ UNCHANGED <<mgr, rec, audio_exists, signals, locals, hist, inj,
                   notifications, requests, outcome, last_call, other>>

\* main.py:429-432
MainCheckKeys ==
    /\ pc = "m_check"
    /\ IF get_remaining_count(api_keys, failed_keys) = 0
       THEN /\ notifications' = feedback(notifications, "error")
            /\ pc' = "exit1"
       ELSE /\ pc' = "m_cleanup"
            /\ UNCHANGED notifications
    /\ UNCHANGED <<mgr, rec, audio_exists, handlers, signals, locals, hist, inj,
                   requests, outcome, last_call, other>>

\* main.py:435
MainCleanup ==
    /\ pc = "m_cleanup"
    /\ \E c \in cleanup_audio_file(audio_exists) :
         audio_exists' = c.exists
    /\ pc' = "m_setrec"
    /\ UNCHANGED <<mgr, rec, handlers, signals, locals, hist, inj, notifications,
                   requests, outcome, last_call, other>>

\* main.py:438
MainSetRecording ==
    /\ pc = "m_setrec"
    /\ recording' = TRUE
    /\ pc' = "m_thread"
    /\ UNCHANGED <<mgr, rec_pc, frames, audio_exists, handlers, signals,
                   locals, hist, inj, notifications, requests, outcome, last_call, other>>

\* main.py:439-441
MainStartThread ==
    /\ pc = "m_thread"
    /\ rec_pc' = "open"
    /\ notifications' = feedback(notifications, "start")
    /\ pc' = "m_join"
    /\ UNCHANGED <<mgr, recording, frames, audio_exists, handlers, signals,
                   locals, hist, inj, requests, outcome, last_call, other>>

\* record_audio, main.py:160-169: opening the stream can raise, which ends
\* the thread without a file being written (main.py:184-190)
RecOpen ==
    /\ rec_pc = "open"
    /\ rec_pc' \in {"loop", "done"}
    /\ UNCHANGED <<mgr, recording, frames, audio_exists, handlers, signals,
                   pc, locals, hist, inj, notifications, requests, outcome,
                   last_call, other>>

\* record_audio, main.py:173-182: one evaluation of the loop condition; a
\* read or the write of the file can raise (main.py:184-190); the frames
\* are gone when the function returns
RecLoop ==
    /\ rec_pc = "loop"
    /\ IF recording
       THEN /\ \/ /\ frames' = IF frames < MaxFrames THEN frames + 1
                                                     ELSE frames
                  /\ rec_pc' = "loop"
               \/ /\ rec_pc' = "done"
                  /\ frames' = 0
            /\ UNCHANGED audio_exists
       ELSE /\ audio_exists' \in {TRUE, audio_exists}
            /\ rec_pc' = "done"
            /\ frames' = 0
    /\ UNCHANGED <<mgr, recording, handlers, signals, pc, locals, hist, inj,
                   notifications, requests, outcome, last_call, other>>

\* main.py:444 without the wait: main goes on while the thread may still run
MainJoin_NoWait ==
    /\ pc = "m_join"
    /\ pc' = "m_exists"
    /\ UNCHANGED <<mgr, rec, audio_exists, handlers, signals, locals, hist, inj,
                   notifications, requests, outcome, last_call, other>>

\* main.py:444
MainJoin ==
    /\ pc = "m_join"
    /\ rec_pc = "done"
    /\ pc' = "m_exists"
    /\ UNCHANGED <<mgr, rec, audio_exists, handlers, signals, locals, hist, inj,
                   notifications, requests, outcome, last_call, other>>

\* main.py:447-448
MainCheckFile ==
    /\ pc = "m_exists"
    /\ pc' = IF audio_exists THEN "t_entry" ELSE "m_cleanup2"
    /\ UNCHANGED <<mgr, rec, audio_exists, handlers, signals, locals, hist, inj,
                   notifications, requests, outcome, last_call, other>>

\* main.py:450
MainCleanup2 ==
    /\ pc = "m_cleanup2"
    /\ \E c \in cleanup_audio_file(audio_exists) :
         /\ audio_exists' = c.exists
         /\ cleanup_failed' = c.failed
    /\ pc' = "done"
    /\ UNCHANGED <<mgr, rec, handlers, signals, locals, hist, inj, notifications,
                   requests, outcome, last_call, runs, ui>>

(***************************************************************************)
(* transcribe_audio                                                        *)
(***************************************************************************)
\* what one upload + generate_content round trip can yield: a response
\* text, or an exception with message err
Responses ==
    {[ok |-> TRUE, text |-> t, err |-> NoError] : t \in ResponseTexts}
    \cup {[ok |-> FALSE, text |-> <<>>, err |-> e] : e \in ApiErrors}

ResClass(r) ==
    IF r.ok THEN "ok" ELSE IF is_retryable(r.err) THEN "retryable" ELSE "fatal"

\* main.py:343-353
T_Entry ==
    /\ pc = "t_entry"
    /\ IF ~audio_exists
       THEN /\ pc' = "m_cleanup2"
            /\ UNCHANGED <<notifications, outcome, locals>>
       ELSE IF get_remaining_count(api_keys, failed_keys) = 0
       THEN /\ notifications' = feedback(notifications, "error")
            /\ outcome' = "NoKeysAvailable"
            /\ pc' = "m_cleanup2"
            /\ UNCHANGED locals
       ELSE /\ max_retries' = get_remaining_count(api_keys, failed_keys)
            /\ last_error' = NoError
            /\ attempt' = 0
            /\ pc' = "t_loop"
            /\ UNCHANGED <<notifications, outcome, key, clean_text>>
    /\ failed_at_start' = failed_keys
    /\ UNCHANGED <<mgr, rec, audio_exists, handlers, signals,
                   failed_at_select, inj, requests, last_call, other>>

\* main.py:355-362 (loop head and get_key) and 416-418 (loop ran out)
T_Loop ==
    /\ pc = "t_loop"
    /\ IF attempt < max_retries
       THEN \E r \in get_key(api_keys, failed_keys) :
              /\ failed_at_select' = failed_keys
              /\ failed_keys' = r.failed
              /\ current_key' = r.ret
              /\ key' = r.ret
              /\ IF r.ret = None
                 THEN /\ notifications' = feedback(notifications, "error")
                      /\ outcome' = "NoKeysAvailable"
                      /\ pc' = "m_cleanup2"
                 ELSE /\ pc' = "t_request"
                      /\ UNCHANGED <<notifications, outcome>>
       ELSE /\ notifications' = feedback(notifications, "error")
            /\ outcome' = "AllKeysExhausted"
            /\ pc' = "m_cleanup2"
            /\ UNCHANGED <<failed_keys, current_key, key, failed_at_select>>
    /\ UNCHANGED <<api_keys, rec, audio_exists, handlers, signals,
                   max_retries, attempt, last_error, clean_text, inj,
                   requests, last_call, other, failed_at_start>>

\* main.py:364-383 and 388-390: the request, mark_success, strip, and the
\* call of type_text_wayland (or the empty-text branch)
RequestStep(resps) ==
    /\ \E r \in resps :
         /\ requests' = Append(requests,
                [key |-> key, fresh |-> key \notin failed_at_select,
                 res |-> ResClass(r), text |-> r.text,
                 after_inject |-> inject_calls # <<>>])
         /\ IF ~r.ok
            THEN /\ last_error' = r.err
                 /\ pc' = "t_except"
                 /\ UNCHANGED <<failed_keys, clean_text, inj, notifications,
                                outcome>>
            ELSE /\ failed_keys' = mark_success(failed_keys, key)
                 /\ UNCHANGED last_error
                 /\ IF r.text # <<>>
                    THEN /\ clean_text' = Strip(r.text)
                         /\ inject_calls' = Append(inject_calls, Strip(r.text))
                         /\ strat_log' = <<>>
                         /\ inj_result' = "none"
                         /\ pc' = "i_uinput"
                         /\ UNCHANGED <<notifications, outcome>>
                    ELSE /\ notifications' = feedback(notifications, "error")
                         /\ outcome' = "EmptyTranscription"
                         /\ pc' = "m_cleanup2"
                         /\ UNCHANGED <<clean_text, inj>>
    /\ UNCHANGED <<api_keys, current_key, rec, audio_exists, handlers,
                   signals, max_retries, attempt, key, hist, last_call, other>>

T_Request ==
    /\ pc = "t_request"
    /\ RequestStep(Responses)

\* the exception handler without the fatal branch (main.py:410-414
\* dropped): every error marks the key failed and moves to the next key
T_Except_AllRetryable ==
    /\ pc = "t_except"
    /\ failed_keys' = mark_failed(api_keys, failed_keys, key)
    /\ IF get_remaining_count(api_keys, failed_keys') > 0
       THEN /\ attempt' = attempt + 1
            /\ pc' = "t_loop"
            /\ UNCHANGED <<notifications, outcome>>
       ELSE /\ notifications' =
                  feedback(feedback(notifications, "error"), "error")
            /\ outcome' = "AllKeysExhausted"
            /\ pc' = "m_cleanup2"
            /\ UNCHANGED attempt
    /\ UNCHANGED <<api_keys, current_key, rec, audio_exists, handlers,
                   signals, max_retries, key, last_error, clean_text, hist,
                   inj, requests, last_call, other>>

\* main.py:392-418: the exception handler, with the code after the loop
\* that a break leads to
T_Except ==
    /\ pc = "t_except"
    /\ IF is_retryable(last_error)
       THEN /\ failed_keys' = mark_failed(api_keys, failed_keys, key)
            /\ IF get_remaining_count(api_keys, failed_keys') > 0
               THEN /\ attempt' = attempt + 1
                    /\ pc' = "t_loop"
                    /\ UNCHANGED <<notifications, outcome>>
               ELSE /\ notifications' =
                          feedback(feedback(notifications, "error"), "error")
                    /\ outcome' = "AllKeysExhausted"
                    /\ pc' = "m_cleanup2"
                    /\ UNCHANGED attempt
       ELSE /\ notifications' = feedback(notifications, "error")
            /\ outcome' = "FatalAPIError"
            /\ pc' = "m_cleanup2"
            /\ UNCHANGED <<failed_keys, attempt>>
    /\ UNCHANGED <<api_keys, current_key, rec, audio_exists, handlers,
                   signals, max_retries, key, last_error, clean_text, hist,
                   inj, requests, last_call, other>>

\* main.py:384-387 and 390: the result of type_text_wayland is reported;
\* Popen in feedback raises UnicodeEncodeError when the notification body
\* holds a lone surrogate
T_AfterInject ==
    /\ pc = "t_after_inject"
    /\ IF inj_result = "true"
       THEN IF SurrogateIdx(Truncate100(clean_text)) # {}
            THEN /\ last_error' =
                      ErrUnicode(SetMin(SurrogateIdx(clean_text)) - 1)
                 /\ pc' = "t_except"
                 /\ UNCHANGED <<notifications, outcome>>
            ELSE /\ notifications' = feedback(notifications, "done")
                 /\ outcome' = "Typed"
                 /\ pc' = "m_cleanup2"
                 /\ UNCHANGED last_error
       ELSE /\ notifications' = feedback(notifications, "error")
            /\ outcome' = "InjectionFailed"
            /\ pc' = "m_cleanup2"
            /\ UNCHANGED last_error
    /\ UNCHANGED <<mgr, rec, audio_exists, handlers, signals, max_retries,
                   attempt, key, clean_text, hist, inj, requests, last_call, other>>

(***************************************************************************)
(* type_text_uinput / type_text_wayland.  An outcome of a strategy says    *)
(* how its tool ended (res) and how much of the text had reached the       *)
(* focused window by then (delivered: none, part or all).                  *)
(***************************************************************************)
Entry(name, res, paste, delivered) ==
    [name |-> name, res |-> res, paste |-> paste, delivered |-> delivered]

\* type_text_uinput, main.py:192-287: typed to the end (True); evdev not
\* importable; /dev/uinput not permitted; any other exception, raised when
\* the device is opened or by a write in the middle of the text
UinputOutcomes ==
    { [res |-> "ok", delivered |-> "all"],
      [res |-> "import_error", delivered |-> "none"],
      [res |-> "permission_error", delivered |-> "none"],
      [res |-> "exception", delivered |-> "none"],
      [res |-> "exception", delivered |-> "part"] }

\* subprocess.run([tool, ..., text], timeout=5), main.py:298-302 / 310-314:
\* an argument with a lone surrogate cannot be encoded and raises before
\* the tool is started; otherwise the tool exits zero, exits non-zero, is
\* not installed, is killed at the timeout (possibly after typing part of
\* the text), or cannot be executed (PermissionError)
RunTool(tool, text) ==
    IF SurrogateIdx(text) # {}
    THEN { [res |-> "raise", delivered |-> "none",
            err |-> ErrUnicode(SetMin(SurrogateIdx(text)) - 1)] }
    ELSE { [res |-> "ok", delivered |-> "all", err |-> NoError],
           [res |-> "nonzero", delivered |-> "none", err |-> NoError],
           [res |-> "missing", delivered |-> "none", err |-> NoError],
           [res |-> "timeout", delivered |-> "none", err |-> NoError],
           [res |-> "timeout", delivered |-> "part", err |-> NoError],
           [res |-> "raise", delivered |-> "none",
            err |-> ErrPermission(tool)] }

\* subprocess.run(['wl-copy'], input=..., check=True, timeout=2),
\* main.py:322-327: a non-zero exit raises CalledProcessError
WlCopyOutcomes == {"ok", "nonzero", "missing", "timeout"}

\* subprocess.run(['wtype', '-M', 'ctrl', ...], timeout=2), main.py:328-331
PasteOutcomes == {"ok", "nonzero", "missing", "timeout"}

\* main.py:293-294
I_Uinput ==
    /\ pc = "i_uinput"
    /\ \E o \in UinputOutcomes :
         /\ strat_log' = Append(strat_log,
                                Entry("uinput", o.res, "n/a", o.delivered))
         /\ IF o.res = "ok"
            THEN /\ inj_result' = "true"
                 /\ pc' = "t_after_inject"
            ELSE /\ pc' = "i_wtype"
                 /\ UNCHANGED inj_result
    /\ UNCHANGED <<mgr, rec, audio_exists, handlers, signals, locals, hist,
                   inject_calls, notifications, requests, outcome, last_call, other>>

\* a type tool whose success does not return (main.py:304 / 316 dropped)
TypeTool_NoReturn(tool, next) ==
    /\ \E o \in RunTool(tool, clean_text) :
         /\ strat_log' = Append(strat_log,
                                Entry(tool, o.res, "n/a", o.delivered))
         /\ IF o.res = "raise"
            THEN /\ inj_result' = "raised"
                 /\ last_error' = o.err
                 /\ pc' = "t_except"
            ELSE /\ pc' = next
                 /\ UNCHANGED <<inj_result, last_error>>
    /\ UNCHANGED <<mgr, rec, audio_exists, handlers, signals, max_retries,
                   attempt, key, clean_text, hist, inject_calls,
                   notifications, requests, outcome, last_call, other>>

\* one external type tool of the chain: main.py:296-306 and 308-318
TypeTool(tool, next) ==
    /\ \E o \in RunTool(tool, clean_text) :
         /\ strat_log' = Append(strat_log,
                                Entry(tool, o.res, "n/a", o.delivered))
         /\ IF o.res = "ok"
            THEN /\ inj_result' = "true"
                 /\ pc' = "t_after_inject"
                 /\ UNCHANGED last_error
            ELSE IF o.res = "raise"
            THEN /\ inj_result' = "raised"
                 /\ last_error' = o.err
                 /\ pc' = "t_except"
            ELSE /\ pc' = next
                 /\ UNCHANGED <<inj_result, last_error>>
    /\ UNCHANGED <<mgr, rec, audio_exists, handlers, signals, max_retries,
                   attempt, key, clean_text, hist, inject_calls,
                   notifications, requests, outcome, last_call, other>>

\* main.py:296-306
I_Wtype ==
    /\ pc = "i_wtype"
    /\ TypeTool("wtype", "i_ydotool")

\* main.py:308-318
I_Ydotool ==
    /\ pc = "i_ydotool"
    /\ TypeTool("ydotool", "i_clipboard")

\* main.py:320-339: wl-copy, then the paste chord, then the code after the
\* chain when the strategy failed
I_Clipboard ==
    /\ pc = "i_clipboard"
    /\ \E c \in WlCopyOutcomes :
         \E p \in (IF c = "ok" THEN PasteOutcomes ELSE {"notrun"}) :
           /\ strat_log' = Append(strat_log,
                 Entry("clipboard", c, p,
                       IF p = "ok" THEN "all" ELSE "none"))
           /\ IF c = "nonzero"
              THEN /\ inj_result' = "raised"
                   /\ last_error' = ErrCalledProcess
                   /\ pc' = "t_except"
                   /\ UNCHANGED notifications
              ELSE IF c = "ok" /\ p \in {"ok", "nonzero"}
              THEN /\ inj_result' = "true"
                   /\ pc' = "t_after_inject"
                   /\ UNCHANGED <<last_error, notifications>>
              ELSE /\ notifications' = feedback(notifications, "error")
                   /\ inj_result' = "false"
                   /\ pc' = "t_after_inject"
                   /\ UNCHANGED last_error
    /\ UNCHANGED <<mgr, rec, audio_exists, handlers, signals, max_retries,
                   attempt, key, clean_text, hist, inject_calls, requests,
                   outcome, last_call, other>>

(***************************************************************************)
(* The program                                                             *)
(***************************************************************************)
Next ==
    \/ SignalHandler
    \/ MainInstallHandlers
    \/ MainCheckKeys
    \/ MainCleanup
    \/ MainSetRecording
    \/ MainStartThread
    \/ RecOpen
    \/ RecLoop
    \/ MainJoin
    \/ MainCheckFile
    \/ T_Entry
    \/ T_Loop
    \/ T_Request
    \/ T_Except
    \/ T_AfterInject
    \/ I_Uinput
    \/ I_Wtype
    \/ I_Ydotool
    \/ I_Clipboard
    \/ MainCleanup2

Spec == Init /\ [][Next]_vars

\* the steps of the main thread, main.py:421-450 and what it calls
MainThread ==
    \/ MainInstallHandlers
    \/ MainCheckKeys
    \/ MainCleanup
    \/ MainSetRecording
    \/ MainStartThread
    \/ MainJoin
    \/ MainCheckFile
    \/ T_Entry
    \/ T_Loop
    \/ T_Request
    \/ T_Except
    \/ T_AfterInject
    \/ I_Uinput
    \/ I_Wtype
    \/ I_Ydotool
    \/ I_Clipboard
    \/ MainCleanup2

\* Fair scheduling: the main thread and the recording thread keep running.
\* The recording thread is owed the steps it takes by itself: opening the
\* stream and leaving the loop once the flag is off (main.py:173).  A read
\* is not owed a failure.  The handler runs in the step that delivers the
\* signal.
SpecFair ==
    /\ Spec
    /\ WF_vars(MainThread)
    /\ WF_vars(RecOpen)
    /\ WF_vars(RecLoop /\ ~recording)

(***************************************************************************)
(* Scenario A: the program with the pool [K1, K2], where every request     *)
(* with K1 fails with HTTP 503 and every request with K2 returns           *)
(* "hello world".                                                          *)
(***************************************************************************)
ScenarioA(k) ==
    IF k = 1 THEN {[ok |-> FALSE, text |-> <<>>, err |-> Err503]}
             ELSE {[ok |-> TRUE, text |-> TextHello, err |-> NoError]}

InitA ==
    /\ Init
    /\ api_keys = <<1, 2>>

\* main.py:364-390 with the responses of the scenario
T_RequestA ==
    /\ pc = "t_request"
    /\ RequestStep(ScenarioA(key))

NextA ==
    \/ SignalHandler
    \/ MainInstallHandlers
    \/ MainCheckKeys
    \/ MainCleanup
    \/ MainSetRecording
    \/ MainStartThread
    \/ RecOpen
    \/ RecLoop
    \/ MainJoin
    \/ MainCheckFile
    \/ T_Entry
    \/ T_Loop
    \/ T_RequestA
    \/ T_Except
    \/ T_AfterInject
    \/ I_Uinput
    \/ I_Wtype
    \/ I_Ydotool
    \/ I_Clipboard
    \/ MainCleanup2

SpecA == InitA /\ [][NextA]_vars

(***************************************************************************)
(* Repeated runs: transcribe_audio called again and again on the same      *)
(* APIKeyManager, the audio file present.  The histories are per run.      *)
(***************************************************************************)
InitRuns ==
    /\ Constructed
    /\ ui_text = <<>>
    /\ audio_exists
    /\ pc = "t_entry"

\* transcribe_audio has returned (main.py:349, 360, 390, 414, 418) and is
\* called again; its locals are new
H_NextRun ==
    /\ pc = "m_cleanup2"
    /\ runs + 1 < MaxRuns
    /\ runs' = runs + 1
    /\ pc' = "t_entry"
    /\ max_retries' = 0
    /\ attempt' = 0
    /\ key' = None
    /\ last_error' = NoError
    /\ clean_text' = <<>>
    /\ failed_at_select' = {}
    /\ failed_at_start' = {}
    /\ inj_result' = "none"
    /\ inject_calls' = <<>>
    /\ strat_log' = <<>>
    /\ requests' = <<>>
    /\ outcome' = "none"
    /\ notifications' = [e \in Events |-> 0]
    /\ UNCHANGED <<mgr, rec, audio_exists, handlers, signals, last_call,
                   cleanup_failed, ui>>

NextRuns ==
    \/ T_Entry
    \/ T_Loop
    \/ T_Request
    \/ T_Except
    \/ T_AfterInject
    \/ I_Uinput
    \/ I_Wtype
    \/ I_Ydotool
    \/ I_Clipboard
    \/ H_NextRun

SpecRuns == InitRuns /\ [][NextRuns]_vars

(***************************************************************************)
(* type_text_uinput, character by character.  A character is a string; a   *)
(* key code is the name of the evdev constant.                             *)
(***************************************************************************)
\* U+0060 GRAVE ACCENT, the character of KEY_GRAVE
Backtick == "U+0060"

\* U+212A KELVIN SIGN; str.lower() gives "k"
Kelvin == "U+212A"

\* U+0130; str.lower() gives the two code points "i" U+0307
DottedI == "U+0130"

\* main.py:198-216
KEY_MAP ==
    ("a" :> "KEY_A") @@ ("b" :> "KEY_B") @@ ("c" :> "KEY_C") @@
    ("d" :> "KEY_D") @@ ("e" :> "KEY_E") @@ ("f" :> "KEY_F") @@
    ("g" :> "KEY_G") @@ ("h" :> "KEY_H") @@ ("i" :> "KEY_I") @@
    ("j" :> "KEY_J") @@ ("k" :> "KEY_K") @@ ("l" :> "KEY_L") @@
    ("m" :> "KEY_M") @@ ("n" :> "KEY_N") @@ ("o" :> "KEY_O") @@
    ("p" :> "KEY_P") @@ ("q" :> "KEY_Q") @@ ("r" :> "KEY_R") @@
    ("s" :> "KEY_S") @@ ("t" :> "KEY_T") @@ ("u" :> "KEY_U") @@
    ("v" :> "KEY_V") @@ ("w" :> "KEY_W") @@ ("x" :> "KEY_X") @@
    ("y" :> "KEY_Y") @@ ("z" :> "KEY_Z") @@ ("0" :> "KEY_0") @@
    ("1" :> "KEY_1") @@ ("2" :> "KEY_2") @@ ("3" :> "KEY_3") @@
    ("4" :> "KEY_4") @@ ("5" :> "KEY_5") @@ ("6" :> "KEY_6") @@
    ("7" :> "KEY_7") @@ ("8" :> "KEY_8") @@ ("9" :> "KEY_9") @@
    (" " :> "KEY_SPACE") @@ ("." :> "KEY_DOT") @@ ("," :> "KEY_COMMA") @@
    ("-" :> "KEY_MINUS") @@ ("=" :> "KEY_EQUAL") @@ ("[" :> "KEY_LEFTBRACE") @@
    ("]" :> "KEY_RIGHTBRACE") @@ (";" :> "KEY_SEMICOLON") @@ ("'" :> "KEY_APOSTROPHE") @@
    ("\\" :> "KEY_BACKSLASH") @@ ("/" :> "KEY_SLASH") @@ (Backtick :> "KEY_GRAVE")

\* main.py:219-228
SHIFT_KEY_MAP ==
    ("!" :> "KEY_1") @@ ("@" :> "KEY_2") @@ ("#" :> "KEY_3") @@
    ("$" :> "KEY_4") @@ ("%" :> "KEY_5") @@ ("^" :> "KEY_6") @@
    ("&" :> "KEY_7") @@ ("*" :> "KEY_8") @@ ("(" :> "KEY_9") @@
    (")" :> "KEY_0") @@ ("_" :> "KEY_MINUS") @@ ("+" :> "KEY_EQUAL") @@
    ("{" :> "KEY_LEFTBRACE") @@ ("}" :> "KEY_RIGHTBRACE") @@ (":" :> "KEY_SEMICOLON") @@
    ("\"" :> "KEY_APOSTROPHE") @@ ("|" :> "KEY_BACKSLASH") @@ ("?" :> "KEY_SLASH") @@
    ("~" :> "KEY_GRAVE") @@ ("<" :> "KEY_COMMA") @@ (">" :> "KEY_DOT")

\* main.py:230
SHIFT_CHARS ==
    { "A", "B", "C", "D", "E", "F", "G", "H", "I", "J",
      "K", "L", "M", "N", "O", "P", "Q", "R", "S", "T",
      "U", "V", "W", "X", "Y", "Z", "!", "@", "#", "$",
      "%", "^", "&", "*", "(", ")", "_", "+", "{", "}",
      "|", ":", "\"", "<", ">", "?" }

UpperToLower ==
    ("A" :> "a") @@ ("B" :> "b") @@ ("C" :> "c") @@ ("D" :> "d") @@
    ("E" :> "e") @@ ("F" :> "f") @@ ("G" :> "g") @@ ("H" :> "h") @@
    ("I" :> "i") @@ ("J" :> "j") @@ ("K" :> "k") @@ ("L" :> "l") @@
    ("M" :> "m") @@ ("N" :> "n") @@ ("O" :> "o") @@ ("P" :> "p") @@
    ("Q" :> "q") @@ ("R" :> "r") @@ ("S" :> "s") @@ ("T" :> "t") @@
    ("U" :> "u") @@ ("V" :> "v") @@ ("W" :> "w") @@ ("X" :> "x") @@
    ("Y" :> "y") @@ ("Z" :> "z")

\* str.lower() of one character, main.py:239
LowerChar(c) ==
    IF c \in DOMAIN UpperToLower THEN UpperToLower[c]
    ELSE IF c = Kelvin THEN "k"
    ELSE IF c = DottedI THEN "i+U+0307"
    ELSE IF c = "U+00C9" THEN "U+00E9"
    ELSE c

\* dict.get, main.py:247
KeyMapGet(c) == IF c \in DOMAIN KEY_MAP THEN KEY_MAP[c] ELSE "None"

\* main.py:240-247 with need_shift taken from SHIFT_CHARS alone (main.py:245
\* dropped)
CharKey_NoForcedShift(c) ==
    IF c \in DOMAIN SHIFT_KEY_MAP
    THEN [key |-> SHIFT_KEY_MAP[c], need_shift |-> c \in SHIFT_CHARS]
    ELSE [key |-> KeyMapGet(LowerChar(c)), need_shift |-> c \in SHIFT_CHARS]

\* main.py:239-247: the key and the shift state chosen for a character
CharKey(c) ==
    IF c \in DOMAIN SHIFT_KEY_MAP
    THEN [key |-> SHIFT_KEY_MAP[c], need_shift |-> TRUE]
    ELSE [key |-> KeyMapGet(LowerChar(c)), need_shift |-> c \in SHIFT_CHARS]

Ev(code, value) == [code |-> code, value |-> value]

\* main.py:253-267: the events written for a character that has a key
CharEvents(k) ==
    IF k.need_shift
    THEN << Ev("KEY_LEFTSHIFT", 1), Ev(k.key, 1), Ev(k.key, 0),
            Ev("KEY_LEFTSHIFT", 0) >>
    ELSE << Ev(k.key, 1), Ev(k.key, 0) >>

\* characters a response can hold: printable ASCII, and some others
OtherChars == {"\n", "\t", "U+00E9", "U+00C9", Kelvin, DottedI}

AllChars ==
    DOMAIN KEY_MAP \cup DOMAIN SHIFT_KEY_MAP \cup DOMAIN UpperToLower
    \cup OtherChars

CtxChars == {"a", "\n"}

CtxTexts == UNION {[1..n -> CtxChars] : n \in 0..MaxCtx}

\* the texts type_text_uinput is called with: any character, in a context
UiTexts == {pre \o <<c>> \o post : pre \in CtxTexts, post \in CtxTexts,
                                   c \in AllChars}

\* main.py:232-236: the device is open, the counters are zero; the call is
\* made from a transcription, so a key is loaded and the recording exists
InitKeys ==
    /\ Constructed
    /\ Len(api_keys) = 1
    /\ audio_exists
    /\ ui_text \in UiTexts
    /\ pc = "u_loop"

uiFrame == <<mgr, rec, audio_exists, handlers, signals, locals, hist, inj,
             notifications, requests, outcome, last_call, cleanup_failed,
             runs, ui_text>>

\* main.py:238-270: one iteration of the loop over the text
U_Char ==
    /\ pc = "u_loop"
    /\ ui_pos <= Len(ui_text)
    /\ LET k == CharKey(ui_text[ui_pos])
       IN  IF k.key = "None"
           THEN /\ skipped_count' = skipped_count + 1
                /\ UNCHANGED <<ui_events, typed_count>>
           ELSE /\ ui_events' = ui_events \o CharEvents(k)
                /\ typed_count' = typed_count + 1
                /\ UNCHANGED skipped_count
    /\ ui_pos' = ui_pos + 1
    /\ UNCHANGED <<pc, ui_ret, uiFrame>>

\* main.py:272-277: the loop is over; close the device and return True
U_Close ==
    /\ pc = "u_loop"
    /\ ui_pos > Len(ui_text)
    /\ ui_ret' = "true"
    /\ pc' = "u_done"
    /\ UNCHANGED <<ui_pos, ui_events, typed_count, skipped_count, uiFrame>>

NextKeys ==
    \/ U_Char
    \/ U_Close

SpecKeys == InitKeys /\ [][NextKeys]_vars

(***************************************************************************)
(* The key pool on its own: any sequence of calls of the APIKeyManager     *)
(* methods, with arbitrary key arguments (MaxKeys + 1 is never loaded).    *)
(***************************************************************************)
KeyArgs == 1..(MaxKeys + 1)

poolFrame == <<recording, audio_exists, handlers, signals, pc, rec_pc,
               frames, max_retries, attempt, key, hist,
               last_error, clean_text, inj_result, notifications, requests,
               inject_calls, strat_log, outcome, other>>

InitPool ==
    /\ Constructed
    /\ ui_text = <<>>
    /\ pc = "pool"

\* a call of get_key, main.py:59-75
P_get_key ==
    /\ pc = "pool"
    /\ \E r \in get_key(api_keys, failed_keys) :
         /\ failed_keys' = r.failed
         /\ current_key' = r.ret
         /\ last_call' = [op |-> "get_key", arg |-> None, ret |-> r.ret,
                          before |-> failed_keys]
    /\ UNCHANGED <<api_keys, poolFrame>>

\* a call of mark_failed, main.py:77-81
P_mark_failed ==
    /\ pc = "pool"
    /\ \E k \in KeyArgs :
         /\ failed_keys' = mark_failed(api_keys, failed_keys, k)
         /\ last_call' = [op |-> "mark_failed", arg |-> k, ret |-> None,
                          before |-> failed_keys]
    /\ UNCHANGED <<api_keys, current_key, poolFrame>>

\* a call of mark_success, main.py:83-85
P_mark_success ==
    /\ pc = "pool"
    /\ \E k \in KeyArgs :
         /\ failed_keys' = mark_success(failed_keys, k)
         /\ last_call' = [op |-> "mark_success", arg |-> k, ret |-> None,
                          before |-> failed_keys]
    /\ UNCHANGED <<api_keys, current_key, poolFrame>>

\* a call of get_remaining_count, main.py:87-89
P_get_remaining_count ==
    /\ pc = "pool"
    /\ last_call' = [op |-> "get_remaining_count", arg |-> None,
                     ret |-> get_remaining_count(api_keys, failed_keys),
                     before |-> failed_keys]
    /\ UNCHANGED <<mgr, poolFrame>>

NextPool ==
    \/ P_get_key
    \/ P_mark_failed
    \/ P_mark_success
    \/ P_get_remaining_count

SpecPool == InitPool /\ [][NextPool]_vars

(***************************************************************************)
(* Properties                                                              *)
(***************************************************************************)
RunEnded == pc \in {"m_cleanup2", "done"}

AllRetryable == \A i \in DOMAIN requests : requests[i].res = "retryable"

\* C1: when every request of a transcribe run returns a retryable error,
\* each request uses a key that was not failed when selected and that no
\* earlier request of the run used, and the run ends as all-keys-exhausted
\* after exactly N requests with all N keys in the failed set.
C1_AllRetryableExhausts ==
    AllRetryable =>
        /\ \A i \in DOMAIN requests : requests[i].fresh
        /\ \A i, j \in DOMAIN requests :
               i # j => requests[i].key # requests[j].key
        /\ Len(requests) <= Len(api_keys)
        /\ (RunEnded /\ outcome # "none") =>
               /\ Len(requests) = Len(api_keys)
               /\ outcome = "AllKeysExhausted"
               /\ failed_keys = Range(api_keys)

C1_Witness ==
    /\ RunEnded
    /\ outcome = "AllKeysExhausted"
    /\ AllRetryable
    /\ Len(requests) = 2
    /\ Len(api_keys) = 2

\* C2: a request that succeeds with non-empty text hands the trimmed text
\* to injection, is the last request of the run, and leaves its key out of
\* the failed set when the run has ended.
C2_SuccessEndsRun ==
    \A k \in DOMAIN requests :
        (requests[k].res = "ok" /\ requests[k].text # <<>>) =>
            /\ \E c \in DOMAIN inject_calls :
                   inject_calls[c] = Strip(requests[k].text)
            /\ k = Len(requests)
            /\ RunEnded => requests[k].key \notin failed_keys

\* C3: a request that fails with a fatal error ends the run at once: the
\* handler leaves the loop, issues no request, and the failed set is the
\* one from before the key was selected, without that key; nothing is
\* requested or marked after the run has ended.
C3_FatalEndsRun ==
    [][ /\ ( /\ pc = "t_except"
             /\ requests # <<>>
             /\ requests[Len(requests)].res = "fatal"
             /\ pc' # pc )
          => /\ pc' = "m_cleanup2"
             /\ requests' = requests
             /\ failed_keys' = failed_keys
             /\ failed_keys' = failed_at_select
             /\ key \notin failed_keys'
        /\ RunEnded => (requests' = requests /\ failed_keys' = failed_keys)
      ]_vars

C3_Witness ==
    /\ RunEnded
    /\ outcome = "FatalAPIError"
    /\ Len(requests) = 2
    /\ requests[2].res = "fatal"
    /\ failed_keys = {requests[1].key}

FailureOutcomes ==
    {"NoKeysAvailable", "FatalAPIError", "AllKeysExhausted",
     "EmptyTranscription", "InjectionFailed"}

\* C4: a transcribe run that ended on a failure path has emitted exactly
\* one 'error' notification.
C4_ExactlyOneError ==
    (RunEnded /\ outcome \in FailureOutcomes) =>
        notifications["error"] = 1

\* C5: within one inject call at most one strategy delivers any part of
\* the text to the focused window.
C5_NoDuplicateDelivery ==
    Cardinality({i \in DOMAIN strat_log :
                    strat_log[i].delivered # "none"}) <= 1

ChainOrder == <<"uinput", "wtype", "ydotool", "clipboard">>

InjectPcs == {"i_uinput", "i_wtype", "i_ydotool", "i_clipboard"}

InjectPcs_At(i) == <<"i_uinput", "i_wtype", "i_ydotool", "i_clipboard">>[i]

FailureModes ==
    {"import_error", "permission_error", "exception", "nonzero", "missing",
     "timeout"}

\* C6: the strategies are started in the order uinput, wtype, ydotool,
\* clipboard; a strategy is started only after all earlier ones failed;
\* when a strategy succeeds inject returns true and nothing is started
\* after it.
C6_ChainOrder ==
    /\ Len(strat_log) <= Len(ChainOrder)
    /\ \A i \in DOMAIN strat_log : strat_log[i].name = ChainOrder[i]
    /\ \A i \in DOMAIN strat_log :
           i < Len(strat_log) => strat_log[i].res \in FailureModes
    /\ \A i \in DOMAIN ChainOrder :
           pc = InjectPcs_At(i) => Len(strat_log) = i - 1
    /\ \A i \in DOMAIN strat_log :
           (strat_log[i].res = "ok" /\ strat_log[i].paste \in {"n/a", "ok"})
               => /\ i = Len(strat_log)
                  /\ inj_result = "true"
                  /\ pc \notin InjectPcs

C6_Witness ==
    /\ Len(strat_log) = 3
    /\ strat_log[1].res = "permission_error"
    /\ strat_log[2].res = "missing"
    /\ strat_log[3].res = "ok"
    /\ inj_result = "true"
    /\ RunEnded

FullyCompleted(e) ==
    IF e.name = "clipboard" THEN e.res = "ok" /\ e.paste = "ok"
                            ELSE e.res = "ok"

\* C7: inject returns true exactly when some strategy fully completed,
\* where the clipboard strategy needs both the copy and the paste chord to
\* succeed.
C7_TrueIffCompleted ==
    inj_result \in {"true", "false"} =>
        (inj_result = "true" <=>
            \E i \in DOMAIN strat_log : FullyCompleted(strat_log[i]))

\* C8: inject never ends by raising, and it returns false when all four
\* strategies failed.
C8_NeverRaises ==
    /\ inj_result # "raised"
    /\ ( /\ Len(strat_log) = Len(ChainOrder)
         /\ \A i \in DOMAIN strat_log : ~FullyCompleted(strat_log[i])
         /\ pc \notin InjectPcs )
       => inj_result = "false"

\* C9: inject is invoked at most once in a run of main and no request is
\* issued after it has been invoked.
C9_OneInjectNoLaterRequest ==
    /\ Len(inject_calls) <= 1
    /\ \A i \in DOMAIN requests : ~requests[i].after_inject

\* C10: get_key returns None for an empty pool and a member of the pool
\* otherwise; with every key failed it clears the failed set; with a
\* proper subset failed it returns a key outside it and leaves the failed
\* set alone.
C10_Select ==
    last_call.op = "get_key" =>
        /\ current_key = last_call.ret
        /\ api_keys = <<>> => last_call.ret = None
        /\ api_keys # <<>> => last_call.ret \in Range(api_keys)
        /\ (api_keys # <<>> /\ last_call.before = Range(api_keys))
               => failed_keys = {}
        /\ (last_call.before # Range(api_keys)
              /\ last_call.before \subseteq Range(api_keys))
               => /\ last_call.ret \notin last_call.before
                  /\ failed_keys = last_call.before

C10_Witness ==
    /\ last_call.op = "get_key"
    /\ Len(api_keys) = 2
    /\ last_call.before = Range(api_keys)
    /\ failed_keys = {}
    /\ last_call.ret = 2

\* C11: after any sequence of get_key, mark_failed, mark_success and
\* get_remaining_count calls with arbitrary key arguments, the failed set
\* is a subset of the pool, the pool is the sequence that was loaded, and
\* get_remaining_count returns pool size minus failed-set size.
C11_PoolInvariant ==
    /\ [](/\ failed_keys \subseteq Range(api_keys)
          /\ last_call.op = "get_remaining_count" =>
                 last_call.ret = Len(api_keys) - Cardinality(failed_keys))
    /\ [][api_keys' = api_keys]_vars

C11_Witness ==
    /\ last_call.op = "mark_failed"
    /\ last_call.arg \notin Range(api_keys)
    /\ last_call.before = {1}
    /\ Len(api_keys) = 2

TranscribeEnded == RunEnded /\ outcome # "none"

\* C12 as stated: in scenario A every execution of transcribe makes exactly
\* 2 attempts, injects "hello world", and ends with K1 failed and K2 not.
C12_ScenarioA_Original ==
    TranscribeEnded =>
        /\ Len(requests) = 2
        /\ inject_calls = <<TextHello>>
        /\ 1 \in failed_keys
        /\ 2 \notin failed_keys

\* C12 amended: in scenario A every execution of transcribe injects
\* "hello world" once and ends with K2 not failed; when K1 is selected
\* first it makes exactly 2 attempts and ends with K1 failed, when K2 is
\* selected first it makes exactly 1 attempt and K1 is not failed.
C12_ScenarioA ==
    TranscribeEnded =>
        /\ inject_calls = <<TextHello>>
        /\ 2 \notin failed_keys
        /\ requests[Len(requests)].key = 2
        /\ requests[1].key = 1 =>
               (Len(requests) = 2 /\ failed_keys = {1})
        /\ requests[1].key = 2 =>
               (Len(requests) = 1 /\ failed_keys = {})

C12_Witness ==
    /\ TranscribeEnded
    /\ Len(requests) = 2
    /\ requests[1].key = 1
    /\ requests[1].res = "retryable"
    /\ inject_calls = <<TextHello>>
    /\ failed_keys = {1}
    /\ outcome = "Typed"

\* C13: a success response with empty text ends the run as
\* EmptyTranscription: it is the last request, its key is not failed and
\* nothing is reported done; inject is never invoked with empty text, and
\* 'done' is never reported when there was no text to type.
C13_EmptyNotInjected ==
    /\ \A k \in DOMAIN requests :
           (requests[k].res = "ok" /\ requests[k].text = <<>>) =>
               /\ k = Len(requests)
               /\ outcome = "EmptyTranscription"
               /\ requests[k].key \notin failed_keys
               /\ notifications["done"] = 0
    /\ \A c \in DOMAIN inject_calls : inject_calls[c] # <<>>
    /\ notifications["done"] > 0 => clean_text # <<>>

\* C14: a transcribe run that starts with every key of a non-empty pool
\* in the failed set still issues at least one request (the failed set
\* having been cleared by get_key).
C14_NoLockout ==
    ( /\ TranscribeEnded
      /\ api_keys # <<>>
      /\ failed_at_start = Range(api_keys) )
    => requests # <<>>

\* C19: in a transcribe run with budget max_retries, iteration i starts
\* with max_retries - i non-failed keys, and at least one; so get_key
\* returns a key without resetting the failed set, the handler's test
\* "keys remain" agrees with "attempts remain", and no key serves two
\* requests of the run.
C19_BudgetTracksKeys ==
    /\ pc = "t_loop" =>
           /\ get_remaining_count(api_keys, failed_keys)
                  = max_retries - attempt
           /\ attempt < max_retries
    /\ pc = "t_request" =>
           /\ key # None
           /\ failed_keys = failed_at_select
           /\ key \notin failed_at_select
    /\ (pc = "t_except" /\ is_retryable(last_error)) =>
           ( get_remaining_count(api_keys,
                                 mark_failed(api_keys, failed_keys, key)) > 0
             <=> attempt + 1 < max_retries )
    /\ \A i, j \in DOMAIN requests :
           i # j => requests[i].key # requests[j].key

C19_Witness ==
    /\ pc = "t_loop"
    /\ attempt = 1
    /\ max_retries = 2
    /\ Cardinality(failed_keys) = 1

\* the US keyboard layout: key code -> <<character, shifted character>>
USLayout ==
    ("KEY_A" :> <<"a", "A">>) @@ ("KEY_B" :> <<"b", "B">>) @@
    ("KEY_C" :> <<"c", "C">>) @@ ("KEY_D" :> <<"d", "D">>) @@
    ("KEY_E" :> <<"e", "E">>) @@ ("KEY_F" :> <<"f", "F">>) @@
    ("KEY_G" :> <<"g", "G">>) @@ ("KEY_H" :> <<"h", "H">>) @@
    ("KEY_I" :> <<"i", "I">>) @@ ("KEY_J" :> <<"j", "J">>) @@
    ("KEY_K" :> <<"k", "K">>) @@ ("KEY_L" :> <<"l", "L">>) @@
    ("KEY_M" :> <<"m", "M">>) @@ ("KEY_N" :> <<"n", "N">>) @@
    ("KEY_O" :> <<"o", "O">>) @@ ("KEY_P" :> <<"p", "P">>) @@
    ("KEY_Q" :> <<"q", "Q">>) @@ ("KEY_R" :> <<"r", "R">>) @@
    ("KEY_S" :> <<"s", "S">>) @@ ("KEY_T" :> <<"t", "T">>) @@
    ("KEY_U" :> <<"u", "U">>) @@ ("KEY_V" :> <<"v", "V">>) @@
    ("KEY_W" :> <<"w", "W">>) @@ ("KEY_X" :> <<"x", "X">>) @@
    ("KEY_Y" :> <<"y", "Y">>) @@ ("KEY_Z" :> <<"z", "Z">>) @@
    ("KEY_0" :> <<"0", ")">>) @@ ("KEY_1" :> <<"1", "!">>) @@
    ("KEY_2" :> <<"2", "@">>) @@ ("KEY_3" :> <<"3", "#">>) @@
    ("KEY_4" :> <<"4", "$">>) @@ ("KEY_5" :> <<"5", "%">>) @@
    ("KEY_6" :> <<"6", "^">>) @@ ("KEY_7" :> <<"7", "&">>) @@
    ("KEY_8" :> <<"8", "*">>) @@ ("KEY_9" :> <<"9", "(">>) @@
    ("KEY_SPACE" :> <<" ", " ">>) @@ ("KEY_DOT" :> <<".", ">">>) @@
    ("KEY_COMMA" :> <<",", "<">>) @@ ("KEY_MINUS" :> <<"-", "_">>) @@
    ("KEY_EQUAL" :> <<"=", "+">>) @@ ("KEY_LEFTBRACE" :> <<"[", "{">>) @@
    ("KEY_RIGHTBRACE" :> <<"]", "}">>) @@ ("KEY_SEMICOLON" :> <<";", ":">>) @@
    ("KEY_APOSTROPHE" :> <<"'", "\"">>) @@ ("KEY_BACKSLASH" :> <<"\\", "|">>) @@
    ("KEY_SLASH" :> <<"/", "?">>) @@ ("KEY_GRAVE" :> <<Backtick, "~">>)

\* ASCII letters, digits, space and punctuation
MappedChars == UNION {{USLayout[k][1], USLayout[k][2]} : k \in DOMAIN USLayout}

\* the characters typed by an event sequence, read on the US layout; an
\* event sequence that is not made of key strokes reads as <<"?">>
RECURSIVE DecodeEvents(_)
DecodeEvents(evs) ==
    IF evs = <<>> THEN <<>>
    ELSE IF /\ Len(evs) >= 4
            /\ evs[1] = Ev("KEY_LEFTSHIFT", 1)
            /\ evs[4] = Ev("KEY_LEFTSHIFT", 0)
            /\ evs[2].value = 1
            /\ evs[3] = Ev(evs[2].code, 0)
            /\ evs[2].code \in DOMAIN USLayout
         THEN <<USLayout[evs[2].code][2]>>
                  \o DecodeEvents(SubSeq(evs, 5, Len(evs)))
    ELSE IF /\ Len(evs) >= 2
            /\ evs[1].value = 1
            /\ evs[2] = Ev(evs[1].code, 0)
            /\ evs[1].code \in DOMAIN USLayout
         THEN <<USLayout[evs[1].code][1]>>
                  \o DecodeEvents(SubSeq(evs, 3, Len(evs)))
    ELSE <<"?">>

UiDone == SubSeq(ui_text, 1, ui_pos - 1)

IsMapped(c) == c \in MappedChars

\* C15: a text of mapped characters (ASCII letters, digits, space,
\* punctuation) is written as key strokes, shifted exactly for the
\* shift-required characters, that read back as the text; distinct mapped
\* characters have distinct (key code, shift) pairs.
C15_RoundTrip ==
    /\ (\A i \in DOMAIN UiDone : IsMapped(UiDone[i])) =>
           /\ DecodeEvents(ui_events) = UiDone
           /\ typed_count = Len(UiDone)
           /\ skipped_count = 0
    /\ \A i \in DOMAIN UiDone : \A c \in MappedChars :
           (IsMapped(UiDone[i]) /\ c # UiDone[i])
               => CharKey(c) # CharKey(UiDone[i])

C15_Witness ==
    /\ pc = "u_done"
    /\ ui_text = <<"a", "~", "a">>
    /\ Len(ui_events) = 8
    /\ ui_ret = "true"

\* C16: a character outside the mapped set writes no event and counts as
\* skipped; the characters after it are still typed, in order, and the
\* strategy returns True.
C16_UnmappedSkipped ==
    /\ DecodeEvents(ui_events) = SelectSeq(UiDone, IsMapped)
    /\ typed_count = Len(SelectSeq(UiDone, IsMapped))
    /\ skipped_count = Len(UiDone) - typed_count
    /\ pc = "u_done" => (ui_ret = "true" /\ ui_pos = Len(ui_text) + 1)

\* C17 as stated: the audio file does not exist when the process ends
C17_FileGone == pc = "done" => ~audio_exists

\* C17: past the startup key check, cleanup_audio_file is the last step of
\* main on every exit path, and the audio file does not exist when the
\* process ends unless that last os.remove failed (the error is logged and
\* swallowed).
C17_FileGoneUnlessRemoveFailed ==
    pc = "done" => (audio_exists <=> cleanup_failed)

C17_Witness ==
    /\ pc = "done"
    /\ ~audio_exists
    /\ outcome = "InjectionFailed"
    /\ signals > 0

TranscribePcs ==
    {"t_entry", "t_loop", "t_request", "t_except", "t_after_inject"}
    \cup InjectPcs

\* C18: transcription and injection only run once the recording thread has
\* finished; a stop signal handled while they run clears the stop flag and
\* counts one "stop" notification, and leaves the position of main, the key
\* pool, the attempt, the requests made, the injection chain and the
\* outcome as they are; no step of transcription or injection writes the
\* flag.
C18_SignalOnlyFlag ==
    /\ [](pc \in TranscribePcs => rec_pc = "done")
    /\ [][(pc \in TranscribePcs /\ signals' # signals) =>
              /\ recording' = FALSE
              /\ \A e \in Events \ {"stop"} :
                     notifications'[e] = notifications[e]
              /\ UNCHANGED <<pc, mgr, rec_pc, frames, audio_exists, handlers,
                             locals, hist, inj, requests, outcome, last_call,
                             other>>]_vars
    /\ [][(pc \in TranscribePcs /\ pc' # pc) =>
              UNCHANGED <<recording, signals, rec_pc>>]_vars

C18_Witness ==
    /\ pc = "t_request"
    /\ attempt = 1
    /\ signals = 1
    /\ ~recording
    /\ notifications["stop"] = 1
    /\ rec_pc = "done"

PreJoinPcs ==
    {"m_install", "m_check", "m_cleanup", "m_setrec", "m_thread", "m_join"}

\* C20: once a stop signal has been handled, main eventually gets past the
\* join of the recording thread.
C20_SignalStopsRecording == (signals > 0) ~> (pc \notin PreJoinPcs)

====
